---- MODULE Spec2Model ----
(***************************************************************************)
(* Model of dbw::RuleEngine (include/dbw/RuleEngine.hpp,                    *)
(* src/dbw/RuleEngine.cpp) and of the driver in tools/example_main.cpp.     *)
(*                                                                         *)
(* std::optional<T> is a sequence of length 0 (nullopt) or 1.               *)
(* A Value (std::variant<bool,double,std::string>) is a record with a tag   *)
(* and one field per alternative; doubles are integers in units of 1e-6.    *)
(* Time points and durations are integers in milliseconds.                  *)
(***************************************************************************)
EXTENDS Integers, Sequences, FiniteSets, TLC

VARIABLES rules_, store, active_, pendingEvent_, out, now, last, runLog, oldest, newest

vars == <<rules_, store, active_, pendingEvent_, out, now, last, runLog, oldest, newest>>

(***************************************************************************)
(* Bounds of the model                                                      *)
(***************************************************************************)
\* the clock of the general specification runs from 0 to MaxTime ms
MaxTime == 4
\* a tick of the general specification comes at most MaxDelta ms after the
\* previous one
MaxDelta == 2
\* number of distinct storage blocks the rule vector can occupy
NumStores == 2

(***************************************************************************)
(* Value                                                                    *)
(***************************************************************************)
\* one unit of the integer encoding of a double is 1e-6
Scale == 1000000

Num(x) == [tag |-> "number", b |-> FALSE, n |-> x, s |-> ""]
Bool(x) == [tag |-> "bool", b |-> x, n |-> 0, s |-> ""]
Str(x) == [tag |-> "string", b |-> FALSE, n |-> 0, s |-> x]

Ops == {"Eq", "Ne", "Gt", "Lt", "Ge", "Le"}

\* const double eps = 1e-6, in units of 1e-6
eps == 1

Fabs(d) == IF d < 0 THEN 0 - d ELSE d

\* variant: the tolerance test is strict
compareDoublesStrict(a, b) ==
    LET d == a - b
    IN  IF Fabs(d) < eps THEN 0
        ELSE IF d < 0 THEN 0 - 1 ELSE 1

compareDoubles(a, b) ==
    LET d == a - b
    IN  IF Fabs(d) <= eps THEN 0
        ELSE IF d < 0 THEN 0 - 1 ELSE 1

\* variant: Ge and Le accept equal booleans and equal texts
compareOrEqual(lhs, op, rhs) ==
    IF lhs.tag = "bool" /\ rhs.tag = "bool"
    THEN CASE op \in {"Eq", "Ge", "Le"} -> lhs.b = rhs.b
           [] op = "Ne" -> lhs.b # rhs.b
           [] OTHER -> FALSE
    ELSE IF lhs.tag = "number" /\ rhs.tag = "number"
    THEN LET c == compareDoubles(lhs.n, rhs.n)
         IN  CASE op = "Eq" -> c = 0
               [] op = "Ne" -> c # 0
               [] op = "Gt" -> c > 0
               [] op = "Lt" -> c < 0
               [] op = "Ge" -> c >= 0
               [] op = "Le" -> c <= 0
               [] OTHER -> FALSE
    ELSE IF lhs.tag = "string" /\ rhs.tag = "string"
    THEN CASE op \in {"Eq", "Ge", "Le"} -> lhs.s = rhs.s
           [] op = "Ne" -> lhs.s # rhs.s
           [] OTHER -> FALSE
    ELSE FALSE

compare(lhs, op, rhs) ==
    IF lhs.tag = "bool" /\ rhs.tag = "bool"
    THEN CASE op = "Eq" -> lhs.b = rhs.b
           [] op = "Ne" -> lhs.b # rhs.b
           [] OTHER -> FALSE
    ELSE IF lhs.tag = "number" /\ rhs.tag = "number"
    THEN LET c == compareDoubles(lhs.n, rhs.n)
         IN  CASE op = "Eq" -> c = 0
               [] op = "Ne" -> c # 0
               [] op = "Gt" -> c > 0
               [] op = "Lt" -> c < 0
               [] op = "Ge" -> c >= 0
               [] op = "Le" -> c <= 0
               [] OTHER -> FALSE
    ELSE IF lhs.tag = "string" /\ rhs.tag = "string"
    THEN CASE op = "Eq" -> lhs.s = rhs.s
           [] op = "Ne" -> lhs.s # rhs.s
           [] OTHER -> FALSE
    ELSE FALSE

(***************************************************************************)
(* SignalProvider: three typed accessors, each a partial map from names     *)
(***************************************************************************)
NoMap == [k \in {} |-> 0]

FakeSignals(numbers, strings, bools) ==
    [numbers |-> numbers, strings |-> strings, bools |-> bools]

getNumber(signals, name) == name \in DOMAIN signals.numbers
getString(signals, name) == name \in DOMAIN signals.strings
getBool(signals, name) == name \in DOMAIN signals.bools

\* the snapshots a caller passes to tickAt
Providers ==
    << \* gear = "P", VCU_Life_Signal = 1.0 (example_main.cpp:84-85)
       FakeSignals([k \in {"VCU_Life_Signal"} |-> 1 * Scale],
                   [k \in {"gear"} |-> "P"], NoMap),
       \* gear = "D", VCU_Life_Signal = 1.0
       FakeSignals([k \in {"VCU_Life_Signal"} |-> 1 * Scale],
                   [k \in {"gear"} |-> "D"], NoMap),
       \* gear = "P", VCU_Life_Signal = 0.0
       FakeSignals([k \in {"VCU_Life_Signal"} |-> 0],
                   [k \in {"gear"} |-> "P"], NoMap),
       \* gear resolves only as a number, VCU_Life_Signal is absent
       FakeSignals([k \in {"gear"} |-> 1 * Scale], NoMap, NoMap),
       \* no signal resolves under any accessor
       FakeSignals(NoMap, NoMap, NoMap),
       \* gear resolves only as a boolean
       FakeSignals(NoMap, NoMap, [k \in {"gear"} |-> TRUE]),
       \* gear resolves as a number and as a text
       FakeSignals([k \in {"gear"} |-> 1 * Scale], [k \in {"gear"} |-> "P"], NoMap) >>

\* the snapshots the general specification ticks with
TickProviders == 1..4

\* variant: a signal that cannot be read counts as different from any value
evaluateNeOnMissing(c, signals) ==
    IF getNumber(signals, c.signal) /\ c.value.tag = "number"
    THEN compare(Num(signals.numbers[c.signal]), c.op, c.value)
    ELSE IF getBool(signals, c.signal) /\ c.value.tag = "bool"
    THEN compare(Bool(signals.bools[c.signal]), c.op, c.value)
    ELSE IF getString(signals, c.signal) /\ c.value.tag = "string"
    THEN compare(Str(signals.strings[c.signal]), c.op, c.value)
    ELSE c.op = "Ne"

evaluate(c, signals) ==
    IF getNumber(signals, c.signal) /\ c.value.tag = "number"
    THEN compare(Num(signals.numbers[c.signal]), c.op, c.value)
    ELSE IF getBool(signals, c.signal) /\ c.value.tag = "bool"
    THEN compare(Bool(signals.bools[c.signal]), c.op, c.value)
    ELSE IF getString(signals, c.signal) /\ c.value.tag = "string"
    THEN compare(Str(signals.strings[c.signal]), c.op, c.value)
    ELSE FALSE

(***************************************************************************)
(* Rule model                                                               *)
(***************************************************************************)
Condition(signal, op, value) == [signal |-> signal, op |-> op, value |-> value]
StepSet(key, value) == [kind |-> "set", key |-> key, value |-> value, duration |-> 0]
StepWait(duration) == [kind |-> "wait", key |-> "", value |-> Bool(FALSE), duration |-> duration]
Rule(name, trigger, conditions, sequence) ==
    [name |-> name, trigger |-> trigger, conditions |-> conditions, sequence |-> sequence]

RECURSIVE conditionsFrom(_, _, _)
conditionsFrom(rule, signals, i) ==
    IF i > Len(rule.conditions) THEN TRUE
    ELSE IF ~evaluate(rule.conditions[i], signals) THEN FALSE
    ELSE conditionsFrom(rule, signals, i + 1)

conditionsSatisfied(rule, signals) == conditionsFrom(rule, signals, 1)

\* the fallback rule of the example driver
DemoRules ==
    << Rule("enter_auto_mode", "dbw_toggle_on",
            << Condition("gear", "Eq", Str("P")),
               Condition("VCU_Life_Signal", "Gt", Num(0)) >>,
            << StepSet("AS_HandShank_Ctrl_St", Num(0)),
               StepSet("AS_Strg0_Enable", Num(3 * Scale)),
               StepSet("AS_Strg1_Enable", Num(3 * Scale)),
               StepSet("AS_Strg_WorkMode_Req", Num(1 * Scale)),
               StepSet("AS_AutoD_Shift_Req", Num(2 * Scale)),
               StepSet("AS_Longit_Ctrlmode", Num(1 * Scale)),
               StepSet("AS_AutoD_BrkMode_Req", Num(3 * Scale)),
               StepSet("AS_AutoD_Accel_Pos_Req", Num(0)),
               StepSet("AS_AutoD_BrkPelPos_Req", Num(300000)),
               StepSet("AS_AutoD_Spd_Limit", Num(5 * Scale)),
               StepWait(200),
               StepSet("AS_AutoD_Req", Num(1 * Scale)) >>) >>

\* rule sets a caller installs with setRules
RulesA ==
    << Rule("first", "e1",
            << Condition("gear", "Eq", Str("P")) >>,
            << StepSet("k1", Num(1 * Scale)), StepSet("k2", Num(2 * Scale)) >>),
       Rule("second", "e1",
            << >>,
            << StepWait(2), StepSet("k1", Num(3 * Scale)) >>),
       Rule("third", "e2",
            << Condition("gear", "Eq", Str("P")),
               Condition("VCU_Life_Signal", "Gt", Num(0)) >>,
            << StepSet("k1", Num(1 * Scale)), StepSet("k2", Num(1 * Scale)),
               StepWait(2), StepSet("k1", Num(2 * Scale)) >>),
       Rule("empty", "e3", << >>, << >>) >>

RulesB ==
    << Rule("other", "e1",
            << Condition("gear", "Ne", Str("P")) >>,
            << StepSet("k3", Num(7 * Scale)), StepSet("k3", Num(8 * Scale)) >>) >>

RuleSets == << RulesA, RulesB >>

Events == {"e1", "e2", "e3"}

(***************************************************************************)
(* CommandBuffer                                                            *)
(***************************************************************************)
NoCommands == [k \in {} |-> Num(0)]

\* variant: a key that is already in the map keeps its value (insert, not assign)
BufferSetInsert(commands, key, value) ==
    [k \in (DOMAIN commands) \cup {key} |->
        IF k \in DOMAIN commands THEN commands[k] ELSE value]

BufferSet(commands, key, value) ==
    [k \in (DOMAIN commands) \cup {key} |-> IF k = key THEN value ELSE commands[k]]

(***************************************************************************)
(* RuleEngine                                                               *)
(***************************************************************************)
has_value(opt) == Len(opt) > 0

\* a const Rule* into the vector rules_: the storage block and the position
Pointer(i) == [store |-> store, idx |-> i]

ActiveSequence(rule, stepIndex, stepStarted, startedAt) ==
    [rule |-> rule, stepIndex |-> stepIndex, stepStarted |-> stepStarted,
     startedAt |-> startedAt]

AllRules == {DemoRules[i] : i \in DOMAIN DemoRules}
            \cup UNION {{RuleSets[s][i] : i \in DOMAIN RuleSets[s]} : s \in DOMAIN RuleSets}

\* *p: the rule a pointer refers to. A pointer into a storage block that
\* rules_ no longer occupies is dangling, and reading through it may yield
\* any rule.
Deref(p) ==
    IF p.store = store /\ p.idx \in DOMAIN rules_ THEN {rules_[p.idx]}
    ELSE AllRules

\* for (const Rule &r : rules_) if (r.trigger == event && conditionsSatisfied(r, signals)) ... break;
\* the position of the rule the loop stops at, 0 when it runs to the end
RECURSIVE SelectFrom(_, _, _, _)
SelectFrom(rules, event, signals, i) ==
    IF i > Len(rules) THEN 0
    ELSE IF rules[i].trigger = event /\ conditionsSatisfied(rules[i], signals) THEN i
    ELSE SelectFrom(rules, event, signals, i + 1)

\* variant: the loop runs on after a match, so the last qualifying rule wins
RECURSIVE SelectLastFrom(_, _, _, _, _)
SelectLastFrom(rules, event, signals, i, found) ==
    IF i > Len(rules) THEN found
    ELSE IF rules[i].trigger = event /\ conditionsSatisfied(rules[i], signals)
    THEN SelectLastFrom(rules, event, signals, i + 1, i)
    ELSE SelectLastFrom(rules, event, signals, i + 1, found)

SelectRuleLast(rules, event, signals) == SelectLastFrom(rules, event, signals, 1, 0)

SelectRule(rules, event, signals) == SelectFrom(rules, event, signals, 1)

\* variant: the step index advances but stepStarted keeps its old value
advanceStepKeepStamp(a, r, t) ==
    LET a2 == [a EXCEPT !.stepIndex = @ + 1]
    IN  IF a2.stepIndex >= Len(r.sequence) THEN << >> ELSE << a2 >>

\* variant: the sequence is not reset when the index moves past the last step
advanceStepNoFinish(a, r, t) ==
    << [a EXCEPT !.stepIndex = @ + 1, !.stepStarted = t] >>

\* variant: past the last step the sequence starts again at step 0
advanceStepLoop(a, r, t) ==
    LET a2 == [a EXCEPT !.stepIndex = @ + 1, !.stepStarted = t]
    IN  IF a2.stepIndex >= Len(r.sequence)
        THEN << [a2 EXCEPT !.stepIndex = 0] >>
        ELSE << a2 >>

\* advanceStep(now) on the active sequence a of rule r: the new active_
advanceStep(a, r, t) ==
    LET a2 == [a EXCEPT !.stepIndex = @ + 1, !.stepStarted = t]
    IN  IF a2.stepIndex >= Len(r.sequence) THEN << >> ELSE << a2 >>

\* variant: an event that starts no rule stays pending
StartPhaseRetry(active, pending, signals, t) ==
    IF ~has_value(active) /\ has_value(pending)
    THEN LET sel == SelectFrom(rules_, pending[1], signals, 1)
         IN  [active |-> IF sel # 0
                         THEN << ActiveSequence(Pointer(sel), 0, t, t) >>
                         ELSE << >>,
              pending |-> IF sel # 0 THEN << >> ELSE pending,
              consumed |-> IF sel # 0 THEN pending ELSE << >>,
              selected |-> sel]
    ELSE [active |-> active, pending |-> pending, consumed |-> << >>, selected |-> 0]

\* variant: the intake does not test whether a sequence is active
StartPhasePreempt(active, pending, signals, t) ==
    IF has_value(pending)
    THEN LET sel == SelectFrom(rules_, pending[1], signals, 1)
         IN  [active |-> IF sel # 0
                         THEN << ActiveSequence(Pointer(sel), 0, t, t) >>
                         ELSE active,
              pending |-> << >>,
              consumed |-> pending,
              selected |-> sel]
    ELSE [active |-> active, pending |-> pending, consumed |-> << >>, selected |-> 0]

\* variant: the intake reads the pending event without pendingEvent_.reset()
StartPhaseKeepPending(active, pending, signals, t) ==
    IF ~has_value(active) /\ has_value(pending)
    THEN LET sel == SelectFrom(rules_, pending[1], signals, 1)
         IN  [active |-> IF sel # 0
                         THEN << ActiveSequence(Pointer(sel), 0, t, t) >>
                         ELSE << >>,
              pending |-> pending,
              consumed |-> pending,
              selected |-> sel]
    ELSE [active |-> active, pending |-> pending, consumed |-> << >>, selected |-> 0]

\* tickAt lines 30-39: the event intake and rule selection
StartPhase(active, pending, signals, t) ==
    IF ~has_value(active) /\ has_value(pending)
    THEN LET sel == SelectRule(rules_, pending[1], signals)
         IN  [active |-> IF sel # 0
                         THEN << ActiveSequence(Pointer(sel), 0, t, t) >>
                         ELSE << >>,
              pending |-> << >>,
              consumed |-> pending,
              selected |-> sel]
    ELSE [active |-> active, pending |-> pending, consumed |-> << >>, selected |-> 0]

\* the Set and Wait branches of tickAt, shared by the variants below
StepPhase(a, r, commands, t) ==
    LET step == r.sequence[a.stepIndex + 1]
    IN  IF step.kind = "set"
        THEN [active |-> advanceStep(a, r, t),
              out |-> BufferSet(commands, step.key, step.value),
              wrote |-> << [key |-> step.key, value |-> step.value] >>,
              guardFailed |-> FALSE]
        ELSE [active |-> IF t - a.stepStarted >= step.duration
                         THEN advanceStep(a, r, t) ELSE << a >>,
              out |-> commands, wrote |-> << >>, guardFailed |-> FALSE]

\* variant: a failing guard returns without active_.reset()
RunPhaseNoReset(a, r, commands, signals, t) ==
    IF ~conditionsSatisfied(r, signals)
    THEN [active |-> << a >>, out |-> commands, wrote |-> << >>, guardFailed |-> TRUE]
    ELSE IF a.stepIndex >= Len(r.sequence)
    THEN [active |-> << >>, out |-> commands, wrote |-> << >>, guardFailed |-> FALSE]
    ELSE StepPhase(a, r, commands, t)

\* variant: the current step is executed before the guard is tested
RunPhaseStepFirst(a, r, commands, signals, t) ==
    IF a.stepIndex >= Len(r.sequence)
    THEN [active |-> << >>, out |-> commands, wrote |-> << >>,
          guardFailed |-> ~conditionsSatisfied(r, signals)]
    ELSE IF ~conditionsSatisfied(r, signals)
    THEN [StepPhase(a, r, commands, t) EXCEPT !.active = << >>, !.guardFailed = TRUE]
    ELSE StepPhase(a, r, commands, t)

\* variant: a Wait is measured from the start of the sequence
RunPhaseFromStart(a, r, commands, signals, t) ==
    IF ~conditionsSatisfied(r, signals)
    THEN [active |-> << >>, out |-> commands, wrote |-> << >>, guardFailed |-> TRUE]
    ELSE IF a.stepIndex >= Len(r.sequence)
    THEN [active |-> << >>, out |-> commands, wrote |-> << >>, guardFailed |-> FALSE]
    ELSE LET step == r.sequence[a.stepIndex + 1]
         IN  IF step.kind = "set"
             THEN StepPhase(a, r, commands, t)
             ELSE [active |-> IF t - a.startedAt >= step.duration
                              THEN advanceStep(a, r, t) ELSE << a >>,
                   out |-> commands, wrote |-> << >>, guardFailed |-> FALSE]

\* variant: after a Set step the tick goes on to the next step when that is
\* a Set step too
RunPhaseGreedy(a, r, commands, signals, t) ==
    IF ~conditionsSatisfied(r, signals)
    THEN [active |-> << >>, out |-> commands, wrote |-> << >>, guardFailed |-> TRUE]
    ELSE IF a.stepIndex >= Len(r.sequence)
    THEN [active |-> << >>, out |-> commands, wrote |-> << >>, guardFailed |-> FALSE]
    ELSE LET one == StepPhase(a, r, commands, t)
         IN  IF /\ r.sequence[a.stepIndex + 1].kind = "set"
                /\ has_value(one.active)
                /\ r.sequence[a.stepIndex + 2].kind = "set"
             THEN LET two == StepPhase(one.active[1], r, one.out, t)
                  IN  [two EXCEPT !.wrote = one.wrote \o two.wrote]
             ELSE one

\* variant: without the test of the step index against the sequence size; a
\* sequence whose index is past the end stays active
RunPhaseNoBound(a, r, commands, signals, t) ==
    IF ~conditionsSatisfied(r, signals)
    THEN [active |-> << >>, out |-> commands, wrote |-> << >>, guardFailed |-> TRUE]
    ELSE IF a.stepIndex >= Len(r.sequence)
    THEN [active |-> << a >>, out |-> commands, wrote |-> << >>, guardFailed |-> FALSE]
    ELSE StepPhase(a, r, commands, t)

\* tickAt lines 43-68 for the active sequence a whose rule reads as r
RunPhase(a, r, commands, signals, t) ==
    IF ~conditionsSatisfied(r, signals)
    THEN [active |-> << >>, out |-> commands, wrote |-> << >>, guardFailed |-> TRUE]
    ELSE IF a.stepIndex >= Len(r.sequence)
    THEN [active |-> << >>, out |-> commands, wrote |-> << >>, guardFailed |-> FALSE]
    ELSE StepPhase(a, r, commands, t)

\* the values activeRuleName() can return (one, unless the pointer dangles)
activeRuleName ==
    IF ~has_value(active_) THEN {<< >>}
    ELSE {<< r.name >> : r \in Deref(active_[1].rule)}

activeStepIndex == IF ~has_value(active_) THEN 0 ELSE active_[1].stepIndex

\* what the last call was and what it did
Call(op) ==
    [op |-> op, sig |-> 0, event |-> << >>, consumed |-> << >>, selected |-> 0,
     seq |-> << >>, ruleName |-> << >>, guardFailed |-> FALSE, wrote |-> << >>,
     lhs |-> Bool(FALSE), cmp |-> "Eq", rhs |-> Bool(FALSE), result |-> FALSE,
     doc |-> << >>, err |-> ""]

Init ==
    /\ rules_ = << >>
    /\ store = 1
    /\ active_ = << >>
    /\ pendingEvent_ = << >>
    /\ out = NoCommands
    /\ now = 0
    /\ last = Call("init")
    /\ runLog = << >>
    /\ oldest = << >>
    /\ newest = << >>

\* variant: the rules are replaced without active_.reset()
setRulesKeep(rules) ==
    /\ rules_' = rules
    /\ \E s \in (1..NumStores) \ {store} : store' = s
    /\ active_' = active_
    /\ pendingEvent_' = << >>
    /\ last' = [Call("setRules") EXCEPT !.seq = active_, !.event = pendingEvent_]
    /\ runLog' = << >>
    /\ oldest' = << >>
    /\ newest' = << >>
    /\ UNCHANGED <<out, now>>

setRules(rules) ==
    /\ rules_' = rules
    /\ \E s \in (1..NumStores) \ {store} : store' = s
    /\ active_' = << >>
    /\ pendingEvent_' = << >>
    /\ last' = [Call("setRules") EXCEPT !.seq = active_, !.event = pendingEvent_]
    /\ runLog' = << >>
    /\ oldest' = << >>
    /\ newest' = << >>
    /\ UNCHANGED <<out, now>>

\* variant: an event that is still pending is not replaced
onEventKeep(eventName) ==
    /\ pendingEvent_' = IF has_value(pendingEvent_) THEN pendingEvent_ ELSE << eventName >>
    /\ last' = [Call("onEvent") EXCEPT !.event = << eventName >>]
    /\ oldest' = IF has_value(oldest) THEN oldest ELSE << eventName >>
    /\ newest' = << eventName >>
    /\ UNCHANGED <<rules_, store, active_, out, now, runLog>>

onEvent(eventName) ==
    /\ pendingEvent_' = << eventName >>
    /\ last' = [Call("onEvent") EXCEPT !.event = << eventName >>]
    /\ oldest' = IF has_value(oldest) THEN oldest ELSE << eventName >>
    /\ newest' = << eventName >>
    /\ UNCHANGED <<rules_, store, active_, out, now, runLog>>

clear ==
    /\ out' = NoCommands
    /\ last' = Call("clear")
    /\ UNCHANGED <<rules_, store, active_, pendingEvent_, now, runLog, oldest, newest>>

tickAt(sig, t) ==
    LET signals == Providers[sig]
        s == StartPhase(active_, pendingEvent_, signals, t)
        first == IF has_value(s.consumed) THEN oldest ELSE << >>
    IN  /\ now' = t
        /\ pendingEvent_' = s.pending
        /\ oldest' = IF has_value(s.consumed) THEN << >> ELSE oldest
        /\ newest' = IF has_value(s.consumed) THEN << >> ELSE newest
        /\ UNCHANGED <<rules_, store>>
        /\ IF ~has_value(s.active)
           THEN /\ active_' = << >>
                /\ out' = out
                /\ runLog' = runLog
                /\ last' = [Call("tick") EXCEPT !.sig = sig, !.consumed = s.consumed,
                                                !.event = first]
           ELSE \E r \in Deref(s.active[1].rule) :
                  LET res == RunPhase(s.active[1], r, out, signals, t)
                  IN  /\ active_' = res.active
                      /\ out' = res.out
                      /\ runLog' = (IF s.selected # 0 THEN << >> ELSE runLog) \o res.wrote
                      /\ last' = [Call("tick") EXCEPT
                                    !.sig = sig, !.consumed = s.consumed,
                                    !.event = first,
                                    !.selected = s.selected, !.seq = s.active,
                                    !.ruleName = << r.name >>,
                                    !.guardFailed = res.guardFailed,
                                    !.wrote = res.wrote]

Install == \E i \in DOMAIN RuleSets : setRules(RuleSets[i])

Submit == \E e \in Events : onEvent(e)

Tick ==
    \E sig \in TickProviders, d \in 0..MaxDelta :
        /\ now + d <= MaxTime
        /\ tickAt(sig, now + d)

Next == Install \/ Submit \/ clear \/ Tick

Spec == Init /\ [][Next]_vars

(***************************************************************************)
(* The example driver: the fallback rule is installed, the engine is ticked *)
(* every TickPeriod ms for Iterations ticks                                 *)
(***************************************************************************)
\* std::this_thread::sleep_for(std::chrono::milliseconds(50))
TickPeriod == 50
\* for (int i = 0; i < 20; ++i)
Iterations == 20

InitDemo ==
    /\ rules_ = DemoRules
    /\ store = 2
    /\ active_ = << >>
    /\ pendingEvent_ = << >>
    /\ out = NoCommands
    /\ now = 0
    /\ last = Call("setRules")
    /\ runLog = << >>
    /\ oldest = << >>
    /\ newest = << >>

DemoSubmit == onEvent("dbw_toggle_on")

DemoTick ==
    \E sig \in {1, 2} :
        /\ now + TickPeriod <= Iterations * TickPeriod
        /\ tickAt(sig, now + TickPeriod)

NextDemo == DemoSubmit \/ clear \/ DemoTick

SpecDemo == InitDemo /\ [][NextDemo]_vars

(***************************************************************************)
(* A caller that keeps ticking with advancing timestamps and with signals   *)
(* under which the guard of the active rule passes                          *)
(***************************************************************************)
\* the clock of this specification runs from 0 to MaxLiveTime ms
MaxLiveTime == 12

InitLive ==
    /\ rules_ = RulesA
    /\ store = 2
    /\ active_ = << >>
    /\ pendingEvent_ = << >>
    /\ out = NoCommands
    /\ now = 0
    /\ last = Call("setRules")
    /\ runLog = << >>
    /\ oldest = << >>
    /\ newest = << >>

LiveTick ==
    \E sig \in {1, 2}, d \in 1..MaxDelta :
        /\ now + d <= MaxLiveTime
        /\ has_value(active_) =>
              conditionsSatisfied(rules_[active_[1].rule.idx], Providers[sig])
        /\ tickAt(sig, now + d)

NextLive == Submit \/ LiveTick

SpecLive == InitLive /\ [][NextLive]_vars /\ WF_vars(LiveTick)

(***************************************************************************)
(* One rule guarded by one condition on "gear", for every comparator and    *)
(* every type of expected value, ticked with every snapshot                 *)
(***************************************************************************)
GuardValues == {Str("P"), Num(1 * Scale), Bool(TRUE)}

GuardRules(op, value) ==
    << Rule("guarded", "e1",
            << Condition("gear", op, value) >>,
            << StepSet("k1", Num(1 * Scale)), StepSet("k2", Num(2 * Scale)) >>) >>

InitGuard ==
    /\ \E op \in Ops, value \in GuardValues : rules_ = GuardRules(op, value)
    /\ store = 2
    /\ active_ = << >>
    /\ pendingEvent_ = << >>
    /\ out = NoCommands
    /\ now = 0
    /\ last = Call("setRules")
    /\ runLog = << >>
    /\ oldest = << >>
    /\ newest = << >>

GuardSubmit == onEvent("e1")

GuardTick ==
    \E sig \in DOMAIN Providers, d \in 0..MaxDelta :
        /\ now + d <= MaxTime
        /\ tickAt(sig, now + d)

NextGuard == GuardSubmit \/ GuardTick

SpecGuard == InitGuard /\ [][NextGuard]_vars

(***************************************************************************)
(* compare applied to pairs of values                                       *)
(***************************************************************************)
\* the numbers compared lie within MaxDiff units of 1e-6 of 0.0 and of 1.0
MaxDiff == 3

CompareValues ==
    {Bool(TRUE), Bool(FALSE), Str("P"), Str("D"), Str("")}
    \cup {Num(x) : x \in (0 - MaxDiff)..MaxDiff}
    \cup {Num(Scale + x) : x \in (0 - MaxDiff)..MaxDiff}

Compare ==
    \E lhs \in CompareValues, op \in Ops, rhs \in CompareValues :
        /\ last' = [Call("compare") EXCEPT !.lhs = lhs, !.cmp = op, !.rhs = rhs,
                                            !.result = compare(lhs, op, rhs)]
        /\ UNCHANGED <<rules_, store, active_, pendingEvent_, out, now, runLog,
                       oldest, newest>>

SpecCompare == Init /\ [][Compare]_vars

(***************************************************************************)
(* Rule loading (DBW_USE_NLOHMANN_JSON). A JSON scalar is a record with its *)
(* JSON type; a JSON object is a record of what the parser looks at: which  *)
(* keys it contains and, where the parser iterates, its members in order.   *)
(***************************************************************************)
JBool(x) == [jtype |-> "boolean", b |-> x, n |-> 0, s |-> ""]
JNum(x) == [jtype |-> "number", b |-> FALSE, n |-> x, s |-> ""]
JStr(x) == [jtype |-> "string", b |-> FALSE, n |-> 0, s |-> x]

Member(key, value) == [key |-> key, value |-> value]

\* one element of "conditions": the signal and the other members in order
JCondition(signal, members) == [signal |-> signal, members |-> members]

\* one element of "sequence": a set object, a wait_ms number, or neither
JSet(members) == [hasSet |-> TRUE, set |-> members, hasWait |-> FALSE, wait_ms |-> 0]
JWait(ms) == [hasSet |-> FALSE, set |-> << >>, hasWait |-> TRUE, wait_ms |-> ms]
JOther == [hasSet |-> FALSE, set |-> << >>, hasWait |-> FALSE, wait_ms |-> 0]

JRule(hasName, name, hasTrigger, on_event, hasConditions, conditions, hasSequence, sequence) ==
    [hasName |-> hasName, name |-> name, hasTrigger |-> hasTrigger,
     on_event |-> on_event, hasConditions |-> hasConditions,
     conditions |-> conditions, hasSequence |-> hasSequence, sequence |-> sequence]

\* a text: whether json::parse accepts it, whether the result contains an
\* array "rules", and the elements of that array
JDocument(parses, hasRules, rules) ==
    [parses |-> parses, hasRules |-> hasRules, rules |-> rules]

parseOp(key) ==
    IF key = "equals" THEN "Eq"
    ELSE IF key = "not_equals" THEN "Ne"
    ELSE IF key = "greater_than" THEN "Gt"
    ELSE IF key = "less_than" THEN "Lt"
    ELSE IF key = "greater_or_equal" THEN "Ge"
    ELSE IF key = "less_or_equal" THEN "Le"
    ELSE "Eq"

parseValue(j) ==
    IF j.jtype = "boolean" THEN Bool(j.b)
    ELSE IF j.jtype = "number" THEN Num(j.n * Scale)
    ELSE Str(j.s)

\* Condition c; c.signal = ...; the first member that is not "signal" sets
\* c.op and c.value, which otherwise keep their defaults
parseCondition(cj) ==
    IF cj.members = << >>
    THEN Condition(cj.signal, "Eq", Bool(FALSE))
    ELSE Condition(cj.signal, parseOp(cj.members[1].key), parseValue(cj.members[1].value))

\* the loop over j.at("sequence") from element i on
RECURSIVE parseSequence(_, _, _)
parseSequence(steps, i, parsed) ==
    IF i > Len(steps) THEN [ok |-> TRUE, err |-> "", sequence |-> parsed]
    ELSE IF steps[i].hasSet
    THEN IF Len(steps[i].set) # 1
         THEN [ok |-> FALSE, err |-> "set step must have exactly one key",
               sequence |-> parsed]
         ELSE parseSequence(steps, i + 1,
                  Append(parsed, StepSet(steps[i].set[1].key,
                                         parseValue(steps[i].set[1].value))))
    ELSE IF steps[i].hasWait
    THEN parseSequence(steps, i + 1, Append(parsed, StepWait(steps[i].wait_ms)))
    ELSE [ok |-> FALSE, err |-> "unknown step type", sequence |-> parsed]

NoRule == Rule("", "", << >>, << >>)

parseRule(j) ==
    IF ~j.hasName \/ ~j.hasTrigger \/ ~j.hasSequence
    THEN [ok |-> FALSE, err |-> "rule missing required fields", rule |-> NoRule]
    ELSE LET conditions == IF j.hasConditions
                           THEN [i \in DOMAIN j.conditions |->
                                    parseCondition(j.conditions[i])]
                           ELSE << >>
             seq == parseSequence(j.sequence, 1, << >>)
         IN  [ok |-> seq.ok, err |-> seq.err,
              rule |-> Rule(j.name, j.on_event, conditions, seq.sequence)]

\* the loop over j.at("rules") from element i on
RECURSIVE parseRules(_, _, _)
parseRules(rules, i, parsed) ==
    IF i > Len(rules) THEN [ok |-> TRUE, err |-> "", rules |-> parsed]
    ELSE LET r == parseRule(rules[i])
         IN  IF ~r.ok THEN [ok |-> FALSE, err |-> r.err, rules |-> parsed]
             ELSE parseRules(rules, i + 1, Append(parsed, r.rule))

\* loadRulesFromJsonString up to the call of setRules
parseDocument(doc) ==
    IF ~doc.parses THEN [ok |-> FALSE, err |-> "parse error", rules |-> << >>]
    ELSE IF ~doc.hasRules
    THEN [ok |-> FALSE, err |-> "missing 'rules' array", rules |-> << >>]
    ELSE parseRules(doc.rules, 1, << >>)

\* a load that fails with message err
LoadFails(op, doc, err) ==
    /\ last' = [Call(op) EXCEPT !.doc = << doc >>, !.result = FALSE, !.err = err]
    /\ UNCHANGED <<rules_, store, active_, pendingEvent_, out, now, runLog,
                   oldest, newest>>

\* variant: the rules are parsed into rules_ itself, so that a failure
\* leaves there the rules parsed before it
LoadDocumentPartial(op, doc) ==
    LET p == parseDocument(doc)
    IN  /\ rules_' = p.rules
        /\ last' = [Call(op) EXCEPT !.doc = << doc >>, !.result = p.ok, !.err = p.err,
                                    !.seq = active_, !.event = pendingEvent_]
        /\ IF p.ok
           THEN /\ \E s \in (1..NumStores) \ {store} : store' = s
                /\ active_' = << >>
                /\ pendingEvent_' = << >>
                /\ runLog' = << >>
                /\ oldest' = << >>
                /\ newest' = << >>
           ELSE UNCHANGED <<store, active_, pendingEvent_, runLog, oldest, newest>>
        /\ UNCHANGED <<out, now>>

\* the body of loadRulesFromJsonString, reported as the call op
LoadDocument(op, doc) ==
    LET p == parseDocument(doc)
    IN  IF ~p.ok
        THEN LoadFails(op, doc, p.err)
        ELSE /\ rules_' = p.rules
             /\ \E s \in (1..NumStores) \ {store} : store' = s
             /\ active_' = << >>
             /\ pendingEvent_' = << >>
             /\ last' = [Call(op) EXCEPT !.doc = << doc >>, !.result = TRUE,
                                         !.seq = active_, !.event = pendingEvent_]
             /\ runLog' = << >>
             /\ oldest' = << >>
             /\ newest' = << >>
             /\ UNCHANGED <<out, now>>

loadRulesFromJsonString(jsonText) == LoadDocument("loadRulesFromJsonString", jsonText)

\* a path: whether the file opens, and its contents
loadRulesFromFile(file) ==
    IF ~file.opens
    THEN LoadFails("loadRulesFromFile", file.contents, "cannot open file")
    ELSE LoadDocument("loadRulesFromFile", file.contents)

\* the rule objects of the documents that are loaded
GoodRule ==
    JRule(TRUE, "a", TRUE, "e1",
          TRUE, << JCondition("gear", << Member("equals", JStr("P")) >>) >>,
          TRUE, << JSet(<< Member("k1", JNum(1)) >>), JWait(0),
                   JSet(<< Member("k2", JNum(2)) >>) >>)

NoNameRule == [GoodRule EXCEPT !.hasName = FALSE, !.name = ""]
NoTriggerRule == [GoodRule EXCEPT !.hasTrigger = FALSE, !.on_event = ""]
NoSequenceRule == [GoodRule EXCEPT !.hasSequence = FALSE, !.sequence = << >>]

BadOperatorRule ==
    [GoodRule EXCEPT !.name = "b",
                     !.conditions = << JCondition("gear", << Member("equls", JStr("D")) >>) >>,
                     !.sequence = << JSet(<< Member("k3", JNum(7)) >>) >>]

EmptySetRule == [GoodRule EXCEPT !.sequence = << JSet(<< >>) >>]

TwoKeySetRule ==
    [GoodRule EXCEPT !.sequence =
        << JSet(<< Member("k1", JNum(1)), Member("k2", JNum(2)) >>) >>]

JRules == {GoodRule, NoNameRule, NoTriggerRule, NoSequenceRule, BadOperatorRule,
           EmptySetRule, TwoKeySetRule}

\* a document has at most MaxDocRules rules
MaxDocRules == 2

\* the lists of n rule objects that parseRule accepts
RECURSIVE AcceptedLists(_)
AcceptedLists(n) ==
    IF n = 0 THEN {<< >>}
    ELSE {Append(l, r) : l \in AcceptedLists(n - 1),
                         r \in {j \in JRules : parseRule(j).ok}}

\* the loop over the rules stops at the first one it rejects: the documents
\* are the lists of accepted rules, each with or without one more rule
Documents ==
    {JDocument(TRUE, TRUE, l) : l \in UNION {AcceptedLists(n) : n \in 0..MaxDocRules}}
    \cup {JDocument(TRUE, TRUE, Append(l, r)) :
             l \in UNION {AcceptedLists(n) : n \in 0..(MaxDocRules - 1)}, r \in JRules}
    \cup {JDocument(FALSE, FALSE, << >>), JDocument(TRUE, FALSE, << >>)}

\* the files: one that does not open, one with a rule, one without "rules"
Files ==
    {[opens |-> FALSE, contents |-> JDocument(FALSE, FALSE, << >>)],
     [opens |-> TRUE, contents |-> JDocument(TRUE, TRUE, << GoodRule >>)],
     [opens |-> TRUE, contents |-> JDocument(TRUE, FALSE, << >>)]}

LoadString == \E doc \in Documents : loadRulesFromJsonString(doc)

LoadFile == \E file \in Files : loadRulesFromFile(file)

LoadSubmit == onEvent("e1")

LoadTick == \E sig \in {1, 2} : tickAt(sig, now)

NextLoad == LoadString \/ LoadFile \/ LoadSubmit \/ LoadTick

SpecLoad == Init /\ [][NextLoad]_vars

(***************************************************************************)
(* Properties                                                               *)
(***************************************************************************)
\* the guard of a rule as the conjunction of its conditions
GuardPasses(rule, signals) ==
    \A i \in DOMAIN rule.conditions : evaluate(rule.conditions[i], signals)

\* the positions of the rules an event can start under a snapshot
Qualifying(event, signals) ==
    {i \in DOMAIN rules_ : rules_[i].trigger = event /\ GuardPasses(rules_[i], signals)}

Least(S) == CHOOSE x \in S : \A y \in S : x <= y

Command(step) == [key |-> step.key, value |-> step.value]

IsSet(step) == step.kind = "set"

\* the commands of the Set steps of a step list, in order
SetCommands(steps) ==
    LET sets == SelectSeq(steps, IsSet)
    IN  [i \in 1..Len(sets) |-> Command(sets[i])]

\* the rule of the sequence the last tick worked on
LastRule == rules_[last.seq[1].rule.idx]

\* C1: a tick that consumes an event starts the first rule in declaration
\* order whose trigger equals the event and whose guard passes on the
\* signals of the tick, at step index 0 with startedAt = stepStarted = now;
\* it starts nothing when no rule qualifies, and a tick that consumes no
\* event selects no rule.
C1_FirstMatchStarts ==
    last.op = "tick" =>
        IF has_value(last.consumed)
        THEN LET Q == Qualifying(last.consumed[1], Providers[last.sig])
             IN  IF Q = {}
                 THEN last.selected = 0 /\ last.seq = << >> /\ ~has_value(active_)
                 ELSE /\ last.selected = Least(Q)
                      /\ last.seq = << ActiveSequence(Pointer(Least(Q)), 0, now, now) >>
                      /\ last.ruleName = << rules_[Least(Q)].name >>
                      /\ has_value(active_) =>
                            /\ active_[1].rule = Pointer(Least(Q))
                            /\ active_[1].startedAt = now
                            /\ active_[1].stepStarted = now
        ELSE last.selected = 0

\* two rules qualify for the consumed event and the earlier one was started
C1_Witness ==
    /\ last.op = "tick"
    /\ has_value(last.consumed)
    /\ Cardinality(Qualifying(last.consumed[1], Providers[last.sig])) >= 2
    /\ last.selected = 1
    /\ has_value(active_)

\* what the n-th tick of the fallback rule's sequence writes when the engine
\* is ticked every 50 ms
DemoExpected(n) ==
    CASE n = 1 -> << [key |-> "AS_HandShank_Ctrl_St", value |-> Num(0)] >>
      [] n = 2 -> << [key |-> "AS_Strg0_Enable", value |-> Num(3 * Scale)] >>
      [] n = 3 -> << [key |-> "AS_Strg1_Enable", value |-> Num(3 * Scale)] >>
      [] n = 4 -> << [key |-> "AS_Strg_WorkMode_Req", value |-> Num(1 * Scale)] >>
      [] n = 5 -> << [key |-> "AS_AutoD_Shift_Req", value |-> Num(2 * Scale)] >>
      [] n = 6 -> << [key |-> "AS_Longit_Ctrlmode", value |-> Num(1 * Scale)] >>
      [] n = 7 -> << [key |-> "AS_AutoD_BrkMode_Req", value |-> Num(3 * Scale)] >>
      [] n = 8 -> << [key |-> "AS_AutoD_Accel_Pos_Req", value |-> Num(0)] >>
      [] n = 9 -> << [key |-> "AS_AutoD_BrkPelPos_Req", value |-> Num(300000)] >>
      [] n = 10 -> << [key |-> "AS_AutoD_Spd_Limit", value |-> Num(5 * Scale)] >>
      [] n \in 11..14 -> << >>
      [] n = 15 -> << [key |-> "AS_AutoD_Req", value |-> Num(1 * Scale)] >>
      [] OTHER -> << [key |-> "", value |-> Num(0)] >>

\* C2: while the guard passes on every tick, the commands written since the
\* sequence started are the Set steps before the step index, in order and
\* each once, the first on the tick that consumed the event, and all of them
\* when the sequence has completed; for the fallback rule ticked every 50 ms
\* ticks 1..10 write one command each, ticks 11..14 write nothing, tick 15
\* writes AS_AutoD_Req = 1 and leaves the engine Idle.
C2_CommandsInOrder ==
    /\ has_value(active_) =>
          runLog = SetCommands(SubSeq(rules_[active_[1].rule.idx].sequence,
                                      1, active_[1].stepIndex))
    /\ (last.op = "tick" /\ has_value(last.seq) /\ ~last.guardFailed) =>
          /\ ~has_value(active_) => runLog = SetCommands(LastRule.sequence)
          /\ (last.selected # 0 /\ LastRule.sequence # << >>
                /\ IsSet(LastRule.sequence[1])) =>
                last.wrote = << Command(LastRule.sequence[1]) >>
          /\ LastRule.name = "enter_auto_mode" =>
                LET n == ((now - last.seq[1].startedAt) \div TickPeriod) + 1
                IN  /\ last.wrote = DemoExpected(n)
                    /\ has_value(active_) <=> n < 15

\* the fallback rule's sequence has just completed with its last command
C2_Witness ==
    /\ last.op = "tick"
    /\ last.wrote = << [key |-> "AS_AutoD_Req", value |-> Num(1 * Scale)] >>
    /\ ~has_value(active_)
    /\ Len(runLog) = 11
    /\ now - last.seq[1].startedAt = 14 * TickPeriod

\* the rule of the sequence the next state's tick worked on
TickRule == rules_[last'.seq[1].rule.idx]

\* C3 as stated: when the guard failed on tick K, the tick that follows it
\* writes no command of the cancelled rule, whatever onEvent calls were made
\* while the sequence was running and whatever the signals of that tick.
C3_NoCommandsAfterCancel ==
    [][(last.op = "tick" /\ last.guardFailed /\ last'.op = "tick")
          => ~(last'.ruleName = last.ruleName /\ last'.wrote # << >>)]_vars

\* C3 amended: a tick on which the guard fails writes nothing and leaves the
\* engine Idle; a tick that begins Idle writes a command only when it starts
\* a new sequence by consuming a pending event, and with no event pending it
\* leaves the engine Idle and the buffer unchanged.
C3_CancelEndsRun ==
    [][last'.op = "tick" =>
          /\ last'.guardFailed =>
                ~has_value(active_') /\ last'.wrote = << >> /\ out' = out
          /\ (~has_value(active_) /\ last'.wrote # << >>) =>
                has_value(last'.consumed) /\ last'.selected # 0
          /\ (~has_value(active_) /\ ~has_value(pendingEvent_)) =>
                ~has_value(active_') /\ out' = out /\ last'.wrote = << >>]_vars

\* the guard failed in the middle of a run while an event submitted during
\* the run is still pending
C3_Witness ==
    /\ last.op = "tick"
    /\ last.guardFailed
    /\ last.seq[1].stepIndex > 0
    /\ has_value(pendingEvent_)
    /\ ~has_value(active_)

\* C4: on every tick with an active sequence the guard of its rule is
\* evaluated on the signals of the tick before any step runs; when it fails
\* the tick writes nothing, the buffer is exactly as before the call, and
\* the engine is Idle afterwards.
C4_GuardFailureFrame ==
    [][last'.op = "tick" =>
          /\ has_value(active_) => last'.seq = active_
          /\ has_value(last'.seq) =>
                /\ last'.guardFailed <=> ~GuardPasses(TickRule, Providers[last'.sig])
                /\ last'.guardFailed =>
                      /\ out' = out
                      /\ last'.wrote = << >>
                      /\ active_' = << >>]_vars

\* the guard failed on a tick while commands of earlier ticks of the same
\* run are still in the buffer
C4_Witness ==
    /\ last.op = "tick"
    /\ last.guardFailed
    /\ runLog # << >>
    /\ \A i \in DOMAIN runLog : runLog[i].key \in DOMAIN out

\* C5: while the current step is Wait(D) and the guard passes, a tick with
\* now - stepStarted < D leaves the active sequence as it is and one with
\* now - stepStarted >= D advances the step index by one (completing the
\* sequence when the Wait is the last step); neither writes a command.
\* stepStarted is set to now by the tick that starts the sequence and by
\* every tick that advances the step index, and by nothing else.
C5_WaitHoldsThenAdvances ==
    [][last'.op = "tick" =>
          /\ has_value(active_) => last'.seq = active_
          /\ (has_value(last'.seq) /\ ~last'.guardFailed
                /\ last'.seq[1].stepIndex < Len(TickRule.sequence)
                /\ ~IsSet(TickRule.sequence[last'.seq[1].stepIndex + 1])) =>
                LET a == last'.seq[1]
                    D == TickRule.sequence[a.stepIndex + 1].duration
                IN  /\ out' = out
                    /\ last'.wrote = << >>
                    /\ IF now' - a.stepStarted < D
                       THEN active_' = << a >>
                       ELSE IF a.stepIndex + 1 < Len(TickRule.sequence)
                       THEN active_' = << [a EXCEPT !.stepIndex = a.stepIndex + 1,
                                                    !.stepStarted = now'] >>
                       ELSE active_' = << >>
          /\ has_value(active_') =>
                IF /\ has_value(active_)
                   /\ active_'[1].stepIndex = active_[1].stepIndex
                THEN active_'[1].stepStarted = active_[1].stepStarted
                ELSE active_'[1].stepStarted = now']_vars

\* a tick held a Wait step whose stepStarted is later than the sequence start
C5_Witness ==
    /\ last.op = "tick"
    /\ has_value(active_)
    /\ last.seq = active_
    /\ ~IsSet(rules_[active_[1].rule.idx].sequence[active_[1].stepIndex + 1])
    /\ active_[1].stepStarted > active_[1].startedAt
    /\ now > active_[1].stepStarted

\* C6: one call of tickAt writes at most once and changes at most one key
\* of the buffer, advances the step index by at most one, and when the
\* current step is a Set step (guard passing) writes exactly that step's
\* key and value.
C6_OneStepPerTick ==
    [][last'.op = "tick" =>
          /\ Len(last'.wrote) <= 1
          /\ DOMAIN out \subseteq DOMAIN out'
          /\ Cardinality({k \in DOMAIN out' :
                             k \notin DOMAIN out \/ out'[k] # out[k]}) <= 1
          /\ last'.wrote = << >> => out' = out
          /\ (has_value(active_') /\ has_value(last'.seq)) =>
                active_'[1].stepIndex - last'.seq[1].stepIndex \in {0, 1}
          /\ (has_value(last'.seq) /\ ~last'.guardFailed
                /\ last'.seq[1].stepIndex < Len(TickRule.sequence)) =>
                LET st == TickRule.sequence[last'.seq[1].stepIndex + 1]
                IN  IF IsSet(st)
                    THEN /\ last'.wrote = << Command(st) >>
                         /\ DOMAIN out' = DOMAIN out \cup {st.key}
                         /\ out'[st.key] = st.value
                         /\ \A k \in DOMAIN out \ {st.key} : out'[k] = out[k]
                    ELSE last'.wrote = << >>]_vars

\* a Set step fired on a tick and the step after it is a Set step that did
\* not fire
C6_Witness ==
    /\ last.op = "tick"
    /\ Len(last.wrote) = 1
    /\ has_value(active_)
    /\ active_[1].stepIndex = last.seq[1].stepIndex + 1
    /\ IsSet(rules_[active_[1].rule.idx].sequence[active_[1].stepIndex + 1])
    /\ rules_[active_[1].rule.idx].sequence[active_[1].stepIndex + 1].key \notin DOMAIN out

\* C7: an Idle tick whose pending event has no rule with an equal trigger
\* and a passing guard starts nothing, leaves the buffer unchanged and
\* consumes the event; with no event pending an Idle tick starts nothing,
\* whatever its signals.
C7_UnmatchedEventConsumed ==
    [][last'.op = "tick" =>
          /\ (~has_value(active_) /\ has_value(pendingEvent_)
                /\ Qualifying(pendingEvent_[1], Providers[last'.sig]) = {}) =>
                /\ active_' = << >>
                /\ out' = out
                /\ last'.ruleName = << >>
                /\ last'.consumed = pendingEvent_
                /\ pendingEvent_' = << >>
          /\ (~has_value(active_) /\ ~has_value(pendingEvent_)) =>
                /\ active_' = << >>
                /\ out' = out
                /\ pendingEvent_' = << >>]_vars

\* a tick consumed an event whose trigger a rule has, but whose guard failed
C7_Witness ==
    /\ last.op = "tick"
    /\ has_value(last.consumed)
    /\ last.selected = 0
    /\ \E i \in DOMAIN rules_ : rules_[i].trigger = last.consumed[1]
    /\ ~has_value(pendingEvent_)
    /\ ~has_value(active_)

\* C8: setRules leaves the engine Idle with no pending event and the buffer
\* unchanged; in every state the rule pointer of an active sequence points
\* into the storage rules_ occupies, and every command a tick writes is a
\* Set step of a rule of the installed set.
C8_SetRulesResets ==
    [][/\ last'.op = "setRules" =>
             active_' = << >> /\ pendingEvent_' = << >> /\ out' = out
       /\ has_value(active_') =>
             /\ active_'[1].rule.store = store'
             /\ active_'[1].rule.idx \in DOMAIN rules_'
       /\ (last'.op = "tick" /\ last'.wrote # << >>) =>
             \E i \in DOMAIN rules_' : \E j \in DOMAIN rules_'[i].sequence :
                 /\ IsSet(rules_'[i].sequence[j])
                 /\ Command(rules_'[i].sequence[j]) = last'.wrote[1]
       /\ (last'.op = "tick" /\ has_value(last'.ruleName)) =>
             \E i \in DOMAIN rules_' : rules_'[i].name = last'.ruleName[1]]_vars

\* setRules was called while a sequence was running and an event was pending
C8_Witness ==
    /\ last.op = "setRules"
    /\ has_value(last.seq)
    /\ has_value(last.event)
    /\ ~has_value(active_)
    /\ ~has_value(pendingEvent_)

\* C9 as stated: events are consumed in the order they were submitted, so
\* the event a tick consumes is the earliest one submitted since the last
\* consumption.
C9_FifoOrder ==
    (last.op = "tick" /\ has_value(last.consumed)) => last.consumed = last.event

\* C9 amended: the engine holds one pending event; after onEvent(e) the
\* pending event is e, whatever was pending before, and an Idle tick
\* consumes the pending event and leaves none pending.
C9_SingleSlot ==
    [][/\ last'.op = "onEvent" => pendingEvent_' = last'.event
       /\ (last'.op = "tick" /\ ~has_value(active_) /\ has_value(pendingEvent_)) =>
             last'.consumed = pendingEvent_ /\ pendingEvent_' = << >>]_vars

\* a tick consumed an event other than the first one submitted before it
C9_Witness ==
    /\ last.op = "tick"
    /\ has_value(last.consumed)
    /\ last.event # last.consumed
    /\ ~has_value(pendingEvent_)

\* C10: a tick that begins with an active sequence leaves the pending event
\* as it is and selects no rule, also when the sequence completes or is
\* cancelled on that tick; a tick that begins Idle with an event pending
\* consumes it.
C10_ConsumedOnlyWhenIdle ==
    [][last'.op = "tick" =>
          /\ has_value(active_) =>
                /\ pendingEvent_' = pendingEvent_
                /\ last'.consumed = << >>
                /\ last'.selected = 0
          /\ (~has_value(active_) /\ has_value(pendingEvent_)) =>
                /\ last'.consumed = pendingEvent_
                /\ pendingEvent_' = << >>]_vars

\* a tick that began in Running ended the sequence and the event submitted
\* meanwhile is still pending
C10_Witness ==
    /\ last.op = "tick"
    /\ has_value(last.seq)
    /\ last.selected = 0
    /\ ~has_value(active_)
    /\ has_value(pendingEvent_)

\* the longest time the steps from position i on can take when every tick
\* comes at most MaxDelta after the previous one
RECURSIVE Remaining(_, _)
Remaining(steps, i) ==
    IF i > Len(steps) THEN 0
    ELSE MaxDelta
         + (IF ~IsSet(steps[i]) /\ steps[i].duration > 1 THEN steps[i].duration - 1 ELSE 0)
         + Remaining(steps, i + 1)

\* a sequence of rule i is running and the clock of the model leaves it the
\* time to finish
Running(i) ==
    /\ has_value(active_)
    /\ active_[1].rule.idx = i
    /\ now + Remaining(rules_[i].sequence, active_[1].stepIndex + 1) <= MaxLiveTime

\* the last tick executed the last step of a sequence of rule i and left the
\* engine Idle, having written what that step writes
Completed(i) ==
    /\ ~has_value(active_)
    /\ activeRuleName = {<< >>}
    /\ last.op = "tick"
    /\ ~last.guardFailed
    /\ has_value(last.seq)
    /\ last.seq[1].rule.idx = i
    /\ last.seq[1].stepIndex = Len(rules_[i].sequence) - 1
    /\ runLog = SetCommands(rules_[i].sequence)
    /\ last.wrote = SetCommands(<< rules_[i].sequence[Len(rules_[i].sequence)] >>)

\* C11: when the guard keeps passing and the caller keeps ticking with
\* growing timestamps, every running sequence eventually completes: the
\* engine becomes Idle on the tick that executes its last step, every Set
\* step has been written once, and that tick writes nothing but what the
\* last step writes.
C11_SequenceCompletes ==
    (\E i \in DOMAIN rules_ : Running(i)) ~> (\E i \in DOMAIN rules_ : Completed(i))

\* the sequence with the Wait in the middle has completed
C11_Witness ==
    /\ rules_ = RulesA
    /\ Completed(3)

\* the provider has no value for the signal of c under the accessor of the
\* type of c's expected value
Unresolvable(c, signals) ==
    /\ ~(c.value.tag = "number" /\ c.signal \in DOMAIN signals.numbers)
    /\ ~(c.value.tag = "bool" /\ c.signal \in DOMAIN signals.bools)
    /\ ~(c.value.tag = "string" /\ c.signal \in DOMAIN signals.strings)

\* C12: a condition whose signal the provider cannot resolve under the type
\* of the expected value evaluates to false under every comparator, and a
\* tick with such signals neither starts nor continues a rule whose guard
\* contains the condition: the rule is not selected, a running sequence of
\* it is cancelled without a write, and the engine is not running it
\* afterwards.
C12_UnresolvedFailsClosed ==
    last.op = "tick" =>
        \A i \in DOMAIN rules_ : \A j \in DOMAIN rules_[i].conditions :
            Unresolvable(rules_[i].conditions[j], Providers[last.sig]) =>
                /\ ~evaluate(rules_[i].conditions[j], Providers[last.sig])
                /\ last.selected # i
                /\ (has_value(last.seq) /\ last.seq[1].rule.idx = i) =>
                      last.guardFailed /\ last.wrote = << >>
                /\ has_value(active_) => active_[1].rule.idx # i

\* a running sequence guarded by a not-equals condition was cancelled by a
\* tick whose provider cannot resolve the signal under the expected type
C12_Witness ==
    /\ last.op = "tick"
    /\ last.guardFailed
    /\ last.seq[1].stepIndex = 1
    /\ rules_[1].conditions[1].op = "Ne"
    /\ Unresolvable(rules_[1].conditions[1], Providers[last.sig])
    /\ "gear" \in DOMAIN Providers[last.sig].numbers

\* C13: no call but clear() removes a key from the buffer, and a key changes
\* its value only on a tick that executes a Set step with that key, which
\* then holds the step's value whether or not the key was there before;
\* clear() empties the buffer.
C13_BufferKeptUntilClear ==
    [][/\ last'.op # "clear" =>
             \A k \in DOMAIN out :
                 /\ k \in DOMAIN out'
                 /\ out'[k] # out[k] =>
                       /\ last'.op = "tick"
                       /\ last'.wrote = << [key |-> k, value |-> out'[k]] >>
       /\ (last'.op = "tick" /\ last'.wrote # << >>) =>
             /\ last'.wrote[1] = Command(TickRule.sequence[last'.seq[1].stepIndex + 1])
             /\ DOMAIN out' = DOMAIN out \cup {last'.wrote[1].key}
             /\ out'[last'.wrote[1].key] = last'.wrote[1].value
       /\ last'.op = "clear" => out' = NoCommands]_vars

\* the third Set step of a run overwrote the key the first one wrote, and
\* the key the second one wrote is still in the buffer
C13_Witness ==
    /\ last.op = "tick"
    /\ Len(runLog) = 3
    /\ runLog[1].key = runLog[3].key
    /\ runLog[1].value # runLog[3].value
    /\ last.wrote = << runLog[3] >>
    /\ runLog[3].key \in DOMAIN out
    /\ out[runLog[3].key] = runLog[3].value
    /\ runLog[2].key \in DOMAIN out

\* C14: compare is false under Gt, Lt, Ge and Le for two booleans and for
\* two texts, equal or not; it is false under every comparator for values of
\* different tags; for two booleans or two texts Eq is equality of the
\* contents and Ne its negation.
C14_CompareBoolText ==
    last.op = "compare" =>
        /\ last.lhs.tag # last.rhs.tag => ~last.result
        /\ (last.lhs.tag = "bool" /\ last.rhs.tag = "bool") =>
              /\ last.cmp \in {"Gt", "Lt", "Ge", "Le"} => ~last.result
              /\ last.cmp = "Eq" => (last.result <=> last.lhs.b = last.rhs.b)
              /\ last.cmp = "Ne" => (last.result <=> last.lhs.b # last.rhs.b)
        /\ (last.lhs.tag = "string" /\ last.rhs.tag = "string") =>
              /\ last.cmp \in {"Gt", "Lt", "Ge", "Le"} => ~last.result
              /\ last.cmp = "Eq" => (last.result <=> last.lhs.s = last.rhs.s)
              /\ last.cmp = "Ne" => (last.result <=> last.lhs.s # last.rhs.s)

\* two equal texts were compared under Ge and the result is false
C14_Witness ==
    /\ last.op = "compare"
    /\ last.lhs = Str("P")
    /\ last.rhs = Str("P")
    /\ last.cmp = "Ge"
    /\ ~last.result

\* C15: for two numbers a and b with |a - b| <= 1e-6, of either sign, Eq, Ge
\* and Le are true and Ne, Gt and Lt are false; otherwise Eq is false, Ne is
\* true, Gt and Ge are true exactly when a - b > 0 and Lt and Le exactly
\* when a - b < 0.
C15_NumericTolerance ==
    (last.op = "compare" /\ last.lhs.tag = "number" /\ last.rhs.tag = "number") =>
        LET diff == last.lhs.n - last.rhs.n
        IN  IF (0 - 1) <= diff /\ diff <= 1
            THEN last.result <=> last.cmp \in {"Eq", "Ge", "Le"}
            ELSE /\ last.cmp = "Eq" => ~last.result
                 /\ last.cmp = "Ne" => last.result
                 /\ last.cmp \in {"Gt", "Ge"} => (last.result <=> diff > 0)
                 /\ last.cmp \in {"Lt", "Le"} => (last.result <=> diff < 0)

\* a is 1e-6 below b and Eq is true
C15_Witness ==
    /\ last.op = "compare"
    /\ last.lhs = Num(Scale - 1)
    /\ last.rhs = Num(Scale)
    /\ last.cmp = "Eq"
    /\ last.result

LoadOps == {"loadRulesFromJsonString", "loadRulesFromFile"}

\* C16: a load that returns false leaves the installed rules, the active
\* sequence with its step index, the pending event and the command buffer
\* exactly as they were before the call, and reports a message; none of the
\* rules parsed before the failure is installed.
C16_FailedLoadKeepsState ==
    [][(last'.op \in LoadOps /\ ~last'.result)
          => /\ rules_' = rules_
             /\ store' = store
             /\ active_' = active_
             /\ pendingEvent_' = pendingEvent_
             /\ out' = out
             /\ last'.err # ""]_vars

\* a load fails at its second rule while a sequence is at step 1 and an
\* event is pending
C16_Witness ==
    /\ last.op = "loadRulesFromJsonString"
    /\ ~last.result
    /\ Len(last.doc[1].rules) = 2
    /\ parseRule(last.doc[1].rules[1]).ok
    /\ rules_ # << >>
    /\ has_value(active_)
    /\ active_[1].stepIndex = 1
    /\ has_value(pendingEvent_)

OperatorKeys == {"equals", "not_equals", "greater_than", "less_than",
                 "greater_or_equal", "less_or_equal"}

\* a rule object that lacks a required field, has a condition whose operator
\* key is none of the six, or has a set step without exactly one key
MalformedRule(j) ==
    \/ ~j.hasName
    \/ ~j.hasTrigger
    \/ ~j.hasSequence
    \/ \E i \in DOMAIN j.conditions :
          \E m \in DOMAIN j.conditions[i].members :
              j.conditions[i].members[m].key \notin OperatorKeys
    \/ \E i \in DOMAIN j.sequence :
          j.sequence[i].hasSet /\ Len(j.sequence[i].set) # 1

\* C17: a load of a document in which some rule is malformed returns false
\* with a message.
C17_MalformedLoadAborts ==
    (/\ last.op = "loadRulesFromJsonString"
     /\ \E i \in DOMAIN last.doc[1].rules : MalformedRule(last.doc[1].rules[i]))
        => (~last.result /\ last.err # "")

\* C18: while a sequence stays active it is the same run: the rule and the
\* start time are kept, the step index stays or grows by one, and only a tick
\* changes it; a sequence becomes active only by a tick that selects a rule
\* and starts it at step 0.
C18_StepIndexMonotone ==
    [][/\ (has_value(active_) /\ has_value(active_')) =>
             /\ active_'[1].rule = active_[1].rule
             /\ active_'[1].startedAt = active_[1].startedAt
             /\ activeStepIndex' \in {activeStepIndex, activeStepIndex + 1}
             /\ activeStepIndex' # activeStepIndex => last'.op = "tick"
       /\ (~has_value(active_) /\ has_value(active_')) =>
             /\ last'.op = "tick"
             /\ last'.selected # 0
             /\ last'.seq[1].stepIndex = 0
             /\ activeStepIndex' \in {0, 1}]_vars

\* a tick of a running sequence moved it from step 1 to step 2
C18_Witness ==
    /\ last.op = "tick"
    /\ last.selected = 0
    /\ has_value(last.seq)
    /\ last.seq[1].stepIndex = 1
    /\ has_value(active_)
    /\ activeStepIndex = 2

\* C19: between calls the step index of an active sequence is less than the
\* number of steps of its rule; after a tick that selected a rule without
\* steps no rule is reported active and the tick wrote nothing.
C19_IndexInRange ==
    /\ has_value(active_) =>
          \A r \in Deref(active_[1].rule) : activeStepIndex < Len(r.sequence)
    /\ (/\ last.op = "tick"
        /\ last.selected # 0
        /\ rules_[last.selected].sequence = << >>) =>
          (activeRuleName = {<< >>} /\ last.wrote = << >>)

\* a tick selected the rule without steps
C19_Witness ==
    /\ last.op = "tick"
    /\ last.selected # 0
    /\ rules_[last.selected].sequence = << >>
    /\ last.ruleName = << "empty" >>

\* C20: at most one event is pending; a tick that consumes the pending event
\* matches the name of the latest onEvent since the last consumption or
\* setRules against the rules, and onEvent leaves a state that depends on the
\* earlier state only through what is not the pending event.
C20_LatestEventWins ==
    [][/\ Len(pendingEvent_') <= 1
       /\ (last'.op = "tick" /\ has_value(last'.consumed)) =>
             /\ has_value(newest)
             /\ last'.consumed = newest
             /\ last'.selected = SelectRule(rules_, newest[1], Providers[last'.sig])
       /\ last'.op = "onEvent" =>
             /\ pendingEvent_' = last'.event
             /\ UNCHANGED <<rules_, store, active_, out, now>>]_vars

\* a tick started a rule for e2, submitted after an unconsumed e1
C20_Witness ==
    /\ last.op = "tick"
    /\ last.event = << "e1" >>
    /\ last.consumed = << "e2" >>
    /\ last.selected # 0
    /\ ~has_value(pendingEvent_)

====
